---- MODULE Spec2Model ----
(***************************************************************************)
(* A model of dweessenger (src/dweessenger/__init__.py): one Dweessenger   *)
(* session object per caller, the dweet service holding the single latest  *)
(* record of a mailbox, and the CryptoDweet collaborator between them.     *)
(*                                                                         *)
(* Text (a Python str) and bytes are sequences of one-character strings;   *)
(* the token "xFF" stands for the byte 0xFF, which is no valid UTF-8.      *)
(* A datetime is a record of its seven fields, a timedelta the normalised  *)
(* triple (days, seconds, microseconds) that CPython keeps.                *)
(***************************************************************************)
EXTENDS Integers, Sequences, FiniteSets, TLC

(***************************************************************************)
(* Python values                                                           *)
(***************************************************************************)

\* Python's None.
None == [kind |-> "None"]

\* A str message or a bytes message.
Str(chars) == [kind |-> "str", data |-> chars]
Bytes(tokens) == [kind |-> "bytes", data |-> tokens]

Min(a, b) == IF a < b THEN a ELSE b

\* s[:n]
Prefix(s, n) == SubSeq(s, 1, Min(n, Len(s)))

(***************************************************************************)
(* datetime: strftime, strptime, subtraction                               *)
(***************************************************************************)

DigitChars == <<"0", "1", "2", "3", "4", "5", "6", "7", "8", "9">>

\* [0-9] of a pattern: the ASCII digits.
IsAsciiDigit(c) == \E i \in 1..10 : DigitChars[i] = c

\* The decimal digits of Unicode 14 (category Nd), zero to nine script by
\* script; a character outside ASCII is written as its escape, u0663 for
\* ARABIC-INDIC DIGIT THREE, as a byte is written xFF.
DecimalDigits ==
    <<DigitChars,
      <<"u0660", "u0661", "u0662", "u0663", "u0664",
        "u0665", "u0666", "u0667", "u0668", "u0669">>,
      <<"u06f0", "u06f1", "u06f2", "u06f3", "u06f4",
        "u06f5", "u06f6", "u06f7", "u06f8", "u06f9">>,
      <<"u07c0", "u07c1", "u07c2", "u07c3", "u07c4",
        "u07c5", "u07c6", "u07c7", "u07c8", "u07c9">>,
      <<"u0966", "u0967", "u0968", "u0969", "u096a",
        "u096b", "u096c", "u096d", "u096e", "u096f">>,
      <<"u09e6", "u09e7", "u09e8", "u09e9", "u09ea",
        "u09eb", "u09ec", "u09ed", "u09ee", "u09ef">>,
      <<"u0a66", "u0a67", "u0a68", "u0a69", "u0a6a",
        "u0a6b", "u0a6c", "u0a6d", "u0a6e", "u0a6f">>,
      <<"u0ae6", "u0ae7", "u0ae8", "u0ae9", "u0aea",
        "u0aeb", "u0aec", "u0aed", "u0aee", "u0aef">>,
      <<"u0b66", "u0b67", "u0b68", "u0b69", "u0b6a",
        "u0b6b", "u0b6c", "u0b6d", "u0b6e", "u0b6f">>,
      <<"u0be6", "u0be7", "u0be8", "u0be9", "u0bea",
        "u0beb", "u0bec", "u0bed", "u0bee", "u0bef">>,
      <<"u0c66", "u0c67", "u0c68", "u0c69", "u0c6a",
        "u0c6b", "u0c6c", "u0c6d", "u0c6e", "u0c6f">>,
      <<"u0ce6", "u0ce7", "u0ce8", "u0ce9", "u0cea",
        "u0ceb", "u0cec", "u0ced", "u0cee", "u0cef">>,
      <<"u0d66", "u0d67", "u0d68", "u0d69", "u0d6a",
        "u0d6b", "u0d6c", "u0d6d", "u0d6e", "u0d6f">>,
      <<"u0de6", "u0de7", "u0de8", "u0de9", "u0dea",
        "u0deb", "u0dec", "u0ded", "u0dee", "u0def">>,
      <<"u0e50", "u0e51", "u0e52", "u0e53", "u0e54",
        "u0e55", "u0e56", "u0e57", "u0e58", "u0e59">>,
      <<"u0ed0", "u0ed1", "u0ed2", "u0ed3", "u0ed4",
        "u0ed5", "u0ed6", "u0ed7", "u0ed8", "u0ed9">>,
      <<"u0f20", "u0f21", "u0f22", "u0f23", "u0f24",
        "u0f25", "u0f26", "u0f27", "u0f28", "u0f29">>,
      <<"u1040", "u1041", "u1042", "u1043", "u1044",
        "u1045", "u1046", "u1047", "u1048", "u1049">>,
      <<"u1090", "u1091", "u1092", "u1093", "u1094",
        "u1095", "u1096", "u1097", "u1098", "u1099">>,
      <<"u17e0", "u17e1", "u17e2", "u17e3", "u17e4",
        "u17e5", "u17e6", "u17e7", "u17e8", "u17e9">>,
      <<"u1810", "u1811", "u1812", "u1813", "u1814",
        "u1815", "u1816", "u1817", "u1818", "u1819">>,
      <<"u1946", "u1947", "u1948", "u1949", "u194a",
        "u194b", "u194c", "u194d", "u194e", "u194f">>,
      <<"u19d0", "u19d1", "u19d2", "u19d3", "u19d4",
        "u19d5", "u19d6", "u19d7", "u19d8", "u19d9">>,
      <<"u1a80", "u1a81", "u1a82", "u1a83", "u1a84",
        "u1a85", "u1a86", "u1a87", "u1a88", "u1a89">>,
      <<"u1a90", "u1a91", "u1a92", "u1a93", "u1a94",
        "u1a95", "u1a96", "u1a97", "u1a98", "u1a99">>,
      <<"u1b50", "u1b51", "u1b52", "u1b53", "u1b54",
        "u1b55", "u1b56", "u1b57", "u1b58", "u1b59">>,
      <<"u1bb0", "u1bb1", "u1bb2", "u1bb3", "u1bb4",
        "u1bb5", "u1bb6", "u1bb7", "u1bb8", "u1bb9">>,
      <<"u1c40", "u1c41", "u1c42", "u1c43", "u1c44",
        "u1c45", "u1c46", "u1c47", "u1c48", "u1c49">>,
      <<"u1c50", "u1c51", "u1c52", "u1c53", "u1c54",
        "u1c55", "u1c56", "u1c57", "u1c58", "u1c59">>,
      <<"ua620", "ua621", "ua622", "ua623", "ua624",
        "ua625", "ua626", "ua627", "ua628", "ua629">>,
      <<"ua8d0", "ua8d1", "ua8d2", "ua8d3", "ua8d4",
        "ua8d5", "ua8d6", "ua8d7", "ua8d8", "ua8d9">>,
      <<"ua900", "ua901", "ua902", "ua903", "ua904",
        "ua905", "ua906", "ua907", "ua908", "ua909">>,
      <<"ua9d0", "ua9d1", "ua9d2", "ua9d3", "ua9d4",
        "ua9d5", "ua9d6", "ua9d7", "ua9d8", "ua9d9">>,
      <<"ua9f0", "ua9f1", "ua9f2", "ua9f3", "ua9f4",
        "ua9f5", "ua9f6", "ua9f7", "ua9f8", "ua9f9">>,
      <<"uaa50", "uaa51", "uaa52", "uaa53", "uaa54",
        "uaa55", "uaa56", "uaa57", "uaa58", "uaa59">>,
      <<"uabf0", "uabf1", "uabf2", "uabf3", "uabf4",
        "uabf5", "uabf6", "uabf7", "uabf8", "uabf9">>,
      <<"uff10", "uff11", "uff12", "uff13", "uff14",
        "uff15", "uff16", "uff17", "uff18", "uff19">>,
      <<"U000104a0", "U000104a1", "U000104a2", "U000104a3", "U000104a4",
        "U000104a5", "U000104a6", "U000104a7", "U000104a8", "U000104a9">>,
      <<"U00010d30", "U00010d31", "U00010d32", "U00010d33", "U00010d34",
        "U00010d35", "U00010d36", "U00010d37", "U00010d38", "U00010d39">>,
      <<"U00011066", "U00011067", "U00011068", "U00011069", "U0001106a",
        "U0001106b", "U0001106c", "U0001106d", "U0001106e", "U0001106f">>,
      <<"U000110f0", "U000110f1", "U000110f2", "U000110f3", "U000110f4",
        "U000110f5", "U000110f6", "U000110f7", "U000110f8", "U000110f9">>,
      <<"U00011136", "U00011137", "U00011138", "U00011139", "U0001113a",
        "U0001113b", "U0001113c", "U0001113d", "U0001113e", "U0001113f">>,
      <<"U000111d0", "U000111d1", "U000111d2", "U000111d3", "U000111d4",
        "U000111d5", "U000111d6", "U000111d7", "U000111d8", "U000111d9">>,
      <<"U000112f0", "U000112f1", "U000112f2", "U000112f3", "U000112f4",
        "U000112f5", "U000112f6", "U000112f7", "U000112f8", "U000112f9">>,
      <<"U00011450", "U00011451", "U00011452", "U00011453", "U00011454",
        "U00011455", "U00011456", "U00011457", "U00011458", "U00011459">>,
      <<"U000114d0", "U000114d1", "U000114d2", "U000114d3", "U000114d4",
        "U000114d5", "U000114d6", "U000114d7", "U000114d8", "U000114d9">>,
      <<"U00011650", "U00011651", "U00011652", "U00011653", "U00011654",
        "U00011655", "U00011656", "U00011657", "U00011658", "U00011659">>,
      <<"U000116c0", "U000116c1", "U000116c2", "U000116c3", "U000116c4",
        "U000116c5", "U000116c6", "U000116c7", "U000116c8", "U000116c9">>,
      <<"U00011730", "U00011731", "U00011732", "U00011733", "U00011734",
        "U00011735", "U00011736", "U00011737", "U00011738", "U00011739">>,
      <<"U000118e0", "U000118e1", "U000118e2", "U000118e3", "U000118e4",
        "U000118e5", "U000118e6", "U000118e7", "U000118e8", "U000118e9">>,
      <<"U00011950", "U00011951", "U00011952", "U00011953", "U00011954",
        "U00011955", "U00011956", "U00011957", "U00011958", "U00011959">>,
      <<"U00011c50", "U00011c51", "U00011c52", "U00011c53", "U00011c54",
        "U00011c55", "U00011c56", "U00011c57", "U00011c58", "U00011c59">>,
      <<"U00011d50", "U00011d51", "U00011d52", "U00011d53", "U00011d54",
        "U00011d55", "U00011d56", "U00011d57", "U00011d58", "U00011d59">>,
      <<"U00011da0", "U00011da1", "U00011da2", "U00011da3", "U00011da4",
        "U00011da5", "U00011da6", "U00011da7", "U00011da8", "U00011da9">>,
      <<"U00016a60", "U00016a61", "U00016a62", "U00016a63", "U00016a64",
        "U00016a65", "U00016a66", "U00016a67", "U00016a68", "U00016a69">>,
      <<"U00016ac0", "U00016ac1", "U00016ac2", "U00016ac3", "U00016ac4",
        "U00016ac5", "U00016ac6", "U00016ac7", "U00016ac8", "U00016ac9">>,
      <<"U00016b50", "U00016b51", "U00016b52", "U00016b53", "U00016b54",
        "U00016b55", "U00016b56", "U00016b57", "U00016b58", "U00016b59">>,
      <<"U0001d7ce", "U0001d7cf", "U0001d7d0", "U0001d7d1", "U0001d7d2",
        "U0001d7d3", "U0001d7d4", "U0001d7d5", "U0001d7d6", "U0001d7d7">>,
      <<"U0001d7d8", "U0001d7d9", "U0001d7da", "U0001d7db", "U0001d7dc",
        "U0001d7dd", "U0001d7de", "U0001d7df", "U0001d7e0", "U0001d7e1">>,
      <<"U0001d7e2", "U0001d7e3", "U0001d7e4", "U0001d7e5", "U0001d7e6",
        "U0001d7e7", "U0001d7e8", "U0001d7e9", "U0001d7ea", "U0001d7eb">>,
      <<"U0001d7ec", "U0001d7ed", "U0001d7ee", "U0001d7ef", "U0001d7f0",
        "U0001d7f1", "U0001d7f2", "U0001d7f3", "U0001d7f4", "U0001d7f5">>,
      <<"U0001d7f6", "U0001d7f7", "U0001d7f8", "U0001d7f9", "U0001d7fa",
        "U0001d7fb", "U0001d7fc", "U0001d7fd", "U0001d7fe", "U0001d7ff">>,
      <<"U0001e140", "U0001e141", "U0001e142", "U0001e143", "U0001e144",
        "U0001e145", "U0001e146", "U0001e147", "U0001e148", "U0001e149">>,
      <<"U0001e2f0", "U0001e2f1", "U0001e2f2", "U0001e2f3", "U0001e2f4",
        "U0001e2f5", "U0001e2f6", "U0001e2f7", "U0001e2f8", "U0001e2f9">>,
      <<"U0001e950", "U0001e951", "U0001e952", "U0001e953", "U0001e954",
        "U0001e955", "U0001e956", "U0001e957", "U0001e958", "U0001e959">>,
      <<"U0001fbf0", "U0001fbf1", "U0001fbf2", "U0001fbf3", "U0001fbf4",
        "U0001fbf5", "U0001fbf6", "U0001fbf7", "U0001fbf8", "U0001fbf9">>>>

DecimalDigitSet ==
    { DecimalDigits[r][i] : r \in 1..Len(DecimalDigits), i \in 1..10 }

\* \d of a pattern on str: any decimal digit.
IsDigit(c) == c \in DecimalDigitSet

\* int() of one digit.
DigitVal(c) ==
    IF IsAsciiDigit(c) THEN (CHOOSE i \in 1..10 : DigitChars[i] = c) - 1
    ELSE (CHOOSE i \in 1..10 :
            \E r \in 1..Len(DecimalDigits) : DecimalDigits[r][i] = c) - 1

\* [lo-hi] of a pattern: an ASCII digit of that range.
InClass(c, lo, hi) == IsAsciiDigit(c) /\ DigitVal(c) \in lo..hi

RECURSIVE Pow10(_)
Pow10(n) == IF n = 0 THEN 1 ELSE 10 * Pow10(n - 1)

\* n written in exactly w decimal digits (%m %d %H %M %S %f of strftime).
ZeroPad(n, w) == [i \in 1..w |-> DigitChars[((n \div Pow10(w - i)) % 10) + 1]]

\* The number of decimal digits of n >= 0.
RECURSIVE NumDigits(_)
NumDigits(n) == IF n < 10 THEN 1 ELSE 1 + NumDigits(n \div 10)

\* %Y of the platform's strftime (glibc): the year without padding.
YearString(y) == ZeroPad(y, NumDigits(y))

\* The value of a non-empty sequence of digits.
RECURSIVE DigitsValue(_)
DigitsValue(ds) ==
    IF Len(ds) = 0 THEN 0
    ELSE 10 * DigitsValue(SubSeq(ds, 1, Len(ds) - 1)) + DigitVal(ds[Len(ds)])

\* The length of the longest run of digits of s that starts at position p.
RECURSIVE DigitRun(_, _)
DigitRun(s, p) ==
    IF p <= Len(s) /\ IsDigit(s[p]) THEN 1 + DigitRun(s, p + 1) ELSE 0

DateTime(y, mo, d, h, mi, s, us) ==
    [year |-> y, month |-> mo, day |-> d, hour |-> h, minute |-> mi,
     second |-> s, microsecond |-> us]

IsLeap(y) == y % 4 = 0 /\ (y % 100 # 0 \/ y % 400 = 0)

DaysInMonth(y, m) ==
    IF m = 2 THEN (IF IsLeap(y) THEN 29 ELSE 28)
    ELSE IF m \in {4, 6, 9, 11} THEN 30 ELSE 31

RECURSIVE DaysBeforeMonth(_, _)
DaysBeforeMonth(y, m) ==
    IF m = 1 THEN 0 ELSE DaysBeforeMonth(y, m - 1) + DaysInMonth(y, m - 1)

DaysBeforeYear(y) ==
    (y - 1) * 365 + (y - 1) \div 4 - (y - 1) \div 100 + (y - 1) \div 400

\* datetime.toordinal(): the day number, 1 for 0001-01-01.
ToOrdinal(dt) ==
    DaysBeforeYear(dt.year) + DaysBeforeMonth(dt.year, dt.month) + dt.day

UTC_TIME_STRING_FORMAT ==
    <<"%Y", "-", "%m", "-", "%d", "T", "%H", ":", "%M", ":", "%S", ".", "%f", "Z">>

\* What strftime writes for one directive or literal of the format.
FormatItem(item, dt) ==
    CASE item = "%Y" -> YearString(dt.year)
      [] item = "%m" -> ZeroPad(dt.month, 2)
      [] item = "%d" -> ZeroPad(dt.day, 2)
      [] item = "%H" -> ZeroPad(dt.hour, 2)
      [] item = "%M" -> ZeroPad(dt.minute, 2)
      [] item = "%S" -> ZeroPad(dt.second, 2)
      [] item = "%f" -> ZeroPad(dt.microsecond, 6)
      [] OTHER -> <<item>>

RECURSIVE Strftime(_, _)
Strftime(fmt, dt) ==
    IF Len(fmt) = 0 THEN <<>>
    ELSE FormatItem(Head(fmt), dt) \o Strftime(Tail(fmt), dt)

\* A time string that keeps milliseconds only, its last three digits zero.
MillisecondTimeString(utc_time) ==
    Strftime(UTC_TIME_STRING_FORMAT,
             [utc_time EXCEPT !.microsecond = (utc_time.microsecond \div 1000) * 1000])

get_string_from_utc_time(utc_time) == Strftime(UTC_TIME_STRING_FORMAT, utc_time)

UpperChars ==
    <<"A", "B", "C", "D", "E", "F", "G", "H", "I", "J", "K", "L", "M",
      "N", "O", "P", "Q", "R", "S", "T", "U", "V", "W", "X", "Y", "Z">>

LowerChars ==
    <<"a", "b", "c", "d", "e", "f", "g", "h", "i", "j", "k", "l", "m",
      "n", "o", "p", "q", "r", "s", "t", "u", "v", "w", "x", "y", "z">>

\* str.lower() of one character.
Lower(c) ==
    IF \E i \in 1..26 : UpperChars[i] = c
    THEN LowerChars[CHOOSE i \in 1..26 : UpperChars[i] = c]
    ELSE c

\* A literal of the format against a character of the string: strptime
\* compiles its pattern with re.IGNORECASE.
LiteralMatches(item, c) == Lower(item) = Lower(c)

AllDigits(ds) == \A i \in 1..Len(ds) : IsDigit(ds[i])

\* Whether a piece of the string is one the directive's pattern takes:
\* %Y \d\d\d\d, %m 1[0-2]|0[1-9]|[1-9], %d 3[0-1]|[1-2]\d|0[1-9]|[1-9]| [1-9],
\* %H 2[0-3]|[0-1]\d|\d, %M [0-5]\d|\d, %S 6[0-1]|[0-5]\d|\d, %f [0-9]{1,6}.
FieldMatches(item, ds) ==
    LET n == Len(ds)
    IN CASE item = "%Y" -> n = 4 /\ AllDigits(ds)
         [] item = "%m" -> \/ n = 2 /\ ds[1] = "1" /\ InClass(ds[2], 0, 2)
                           \/ n = 2 /\ ds[1] = "0" /\ InClass(ds[2], 1, 9)
                           \/ n = 1 /\ InClass(ds[1], 1, 9)
         [] item = "%d" -> \/ n = 2 /\ ds[1] = "3" /\ InClass(ds[2], 0, 1)
                           \/ n = 2 /\ InClass(ds[1], 1, 2) /\ IsDigit(ds[2])
                           \/ n = 2 /\ ds[1] = "0" /\ InClass(ds[2], 1, 9)
                           \/ n = 1 /\ InClass(ds[1], 1, 9)
                           \/ n = 2 /\ ds[1] = " " /\ InClass(ds[2], 1, 9)
         [] item = "%H" -> \/ n = 2 /\ ds[1] = "2" /\ InClass(ds[2], 0, 3)
                           \/ n = 2 /\ InClass(ds[1], 0, 1) /\ IsDigit(ds[2])
                           \/ n = 1 /\ IsDigit(ds[1])
         [] item = "%M" -> \/ n = 2 /\ InClass(ds[1], 0, 5) /\ IsDigit(ds[2])
                           \/ n = 1 /\ IsDigit(ds[1])
         [] item = "%S" -> \/ n = 2 /\ ds[1] = "6" /\ InClass(ds[2], 0, 1)
                           \/ n = 2 /\ InClass(ds[1], 0, 5) /\ IsDigit(ds[2])
                           \/ n = 1 /\ IsDigit(ds[1])
         [] item = "%f" -> n \in 1..6 /\ \A i \in 1..n : IsAsciiDigit(ds[i])
         [] OTHER -> FALSE

\* The number a matched field stands for, int() of its text, which skips the
\* space a day may begin with; %f is padded with zeros on the right.
FieldValue(item, ds) ==
    IF item = "%f" THEN DigitsValue(ds) * Pow10(6 - Len(ds))
    ELSE IF ds[1] = " " THEN DigitsValue(Tail(ds))
    ELSE DigitsValue(ds)

\* The number of characters of s a directive can take at position p: the run of
\* digits there, or for %d a space and the run of digits after it.
FieldLength(item, s, p) ==
    IF item = "%d" /\ p <= Len(s) /\ s[p] = " "
    THEN 1 + DigitRun(s, p + 1)
    ELSE DigitRun(s, p)

\* Matching the format against s from position p, the fields found so far in acc:
\* the sequence of the seven field values, or <<>> when s does not match. Every
\* directive is followed by a literal that is no digit, so a field is the whole
\* piece before it. Data left after the format is an error too.
RECURSIVE MatchFormat(_, _, _, _)
MatchFormat(fmt, s, p, acc) ==
    IF Len(fmt) = 0 THEN (IF p = Len(s) + 1 THEN acc ELSE <<>>)
    ELSE LET item == Head(fmt) IN
         IF Len(item) = 2
         THEN LET n == FieldLength(item, s, p)
                  ds == SubSeq(s, p, p + n - 1)
              IN IF FieldMatches(item, ds)
                 THEN MatchFormat(Tail(fmt), s, p + n,
                                  Append(acc, FieldValue(item, ds)))
                 ELSE <<>>
         ELSE IF p <= Len(s) /\ LiteralMatches(item, s[p])
              THEN MatchFormat(Tail(fmt), s, p + 1, acc)
              ELSE <<>>

\* datetime(...) of the matched fields raises ValueError out of its ranges.
ValidFields(f) ==
    /\ f[1] >= 1
    /\ f[3] <= DaysInMonth(f[1], f[2])
    /\ f[6] <= 59

\* datetime.strptime: [ok |-> TRUE, value |-> the datetime], or ok FALSE for
\* the ValueError it raises.
Strptime(s, fmt) ==
    LET f == MatchFormat(fmt, s, 1, <<>>) IN
    IF f # <<>> /\ ValidFields(f)
    THEN [ok |-> TRUE, value |-> DateTime(f[1], f[2], f[3], f[4], f[5], f[6], f[7])]
    ELSE [ok |-> FALSE, value |-> None]

get_utc_time_from_string(utc_time_string) ==
    Strptime(utc_time_string, UTC_TIME_STRING_FORMAT)

SecondsOfDay(dt) == dt.hour * 3600 + dt.minute * 60 + dt.second

\* timedelta(days, seconds, microseconds), normalised as CPython does:
\* 0 <= microseconds < 10^6 and 0 <= seconds < 86400, the sign in days.
TimeDelta(days, seconds, microseconds) ==
    LET us == microseconds % 1000000
        s1 == seconds + (microseconds - us) \div 1000000
        s  == s1 % 86400
        d  == days + (s1 - s) \div 86400
    IN [days |-> d, seconds |-> s, microseconds |-> us]

\* datetime.__sub__
DateTimeSub(a, b) ==
    TimeDelta(ToOrdinal(a) - ToOrdinal(b),
              SecondsOfDay(a) - SecondsOfDay(b),
              a.microsecond - b.microsecond)

\* timedelta.__abs__
TimeDeltaAbs(td) ==
    IF td.days < 0 THEN TimeDelta(-td.days, -td.seconds, -td.microseconds) ELSE td

\* A difference that keeps its sign: utc_time1 - utc_time2 without abs().
SignedTimeDifference(utc_time1, utc_time2) == DateTimeSub(utc_time1, utc_time2)

get_time_difference(utc_time1, utc_time2) ==
    TimeDeltaAbs(DateTimeSub(utc_time1, utc_time2))

\* A comparison that also rejects a gap of exactly n seconds: `>= n`.
TotalSecondsReaches(td, n) == td.days * 86400 + td.seconds >= n

\* total_seconds() > n for a whole number n, without leaving the integers.
TotalSecondsExceeds(td, n) ==
    LET whole == td.days * 86400 + td.seconds
    IN whole > n \/ (whole = n /\ td.microseconds > 0)

\* datetime.__gt__
DateTimeGt(a, b) ==
    LET ka == <<a.year, a.month, a.day, a.hour, a.minute, a.second, a.microsecond>>
        kb == <<b.year, b.month, b.day, b.hour, b.minute, b.second, b.microsecond>>
    IN \E i \in 1..7 : ka[i] > kb[i] /\ \A j \in 1..(i - 1) : ka[j] = kb[j]

(***************************************************************************)
(* The collaborator: cryptodweet's CryptoDweet and from_bytes              *)
(***************************************************************************)

Repeat(c, n) == [i \in 1..n |-> c]

\* bytes.ljust(n): padded with spaces on the right, never cut.
LJust(s, n) == IF Len(s) < n THEN s \o Repeat(" ", n - Len(s)) ELSE s

\* to_bytes: the UTF-8 encoding of a str, bytes as they are.
to_bytes(message) == message.data

\* A key normalization that pads and never truncates.
NormalizeKeyPaddingOnly(key) ==
    IF Len(key) < 16 THEN LJust(key, 16) ELSE LJust(key, 32)

\* The key CryptoDweet encrypts with, as the class docstring states it.
NormalizeKey(key) ==
    IF Len(key) < 16 THEN LJust(key, 16)
    ELSE IF Len(key) <= 32 THEN LJust(key, 32)
    ELSE Prefix(key, 32)

\* The iv CryptoDweet encrypts with, as the class docstring states it.
NormalizeIv(iv) == Prefix(LJust(iv, 16), 16)

\* CryptoDweet(aes_cbc_key, aes_cbc_iv)
CryptoDweet(aes_cbc_key, aes_cbc_iv) ==
    [key |-> NormalizeKey(to_bytes(aes_cbc_key)),
     iv |-> NormalizeIv(to_bytes(aes_cbc_iv))]

\* AES-CBC is a function of key, iv and plaintext: the ciphertext is kept as
\* the triple, and only the same key and iv give the plaintext back.
Encrypt(cd, plain) == [key |-> cd.key, iv |-> cd.iv, plain |-> plain]

CanDecrypt(cd, cipher) == cipher.key = cd.key /\ cipher.iv = cd.iv

\* Whether bytes decode as UTF-8: every token but the byte 0xFF is ASCII.
DecodesAsText(tokens) == \A i \in 1..Len(tokens) : tokens[i] # "xFF"

\* from_bytes: [ok |-> TRUE, value |-> the str], or ok FALSE for the
\* UnicodeDecodeError of bytes that are no UTF-8.
from_bytes(message) ==
    IF message.kind = "bytes" /\ ~DecodesAsText(message.data)
    THEN [ok |-> FALSE, value |-> None]
    ELSE [ok |-> TRUE, value |-> Str(message.data)]

\* The name the mailbox has at the service (the 'thing' of the response).
ThingOf(cd, mailbox) == Encrypt(cd, to_bytes(mailbox))

\* The service's 'created': the server's time in milliseconds, as in the
\* module docstring's response (u'2019-02-11T03:44:36.179Z').
ServerCreatedString(dt) ==
    Prefix(get_string_from_utc_time(dt), 23) \o <<"Z">>

\* What dweet_for posts for content_dict: keys and values encrypted.
EncryptContent(cd, content_dict) ==
    [i \in 1..Len(content_dict) |->
        [key |-> Encrypt(cd, to_bytes(content_dict[i].key)),
         value |-> Encrypt(cd, to_bytes(content_dict[i].value))]]

\* Whether get_latest_dweet_for can give the stored content back as text.
ContentReadable(cd, content) ==
    \A i \in 1..Len(content) :
        /\ CanDecrypt(cd, content[i].key)
        /\ CanDecrypt(cd, content[i].value)
        /\ DecodesAsText(content[i].key.plain)
        /\ DecodesAsText(content[i].value.plain)

DecryptContent(cd, content) ==
    [i \in 1..Len(content) |->
        [key |-> Str(content[i].key.plain), value |-> Str(content[i].value.plain)]]

(***************************************************************************)
(* Bounds and inputs                                                       *)
(***************************************************************************)

\* The number of calls (send, get, publish by others) a run makes.
MaxCalls == 4

SessionIds == {"s1"}

DefaultMailbox == Str(<<"m", "a", "i", "l", "b", "o", "x">>)
DefaultKey == Str(<<"a", "e", "s", "_", "c", "b", "c", "_", "k", "e", "y">>)

Mailbox1 == Str(<<"m", "1">>)
KeyShort == Str(<<"k", "1">>)
\* The arguments sessions are constructed with; iv None is the omitted iv.
CtorArgs ==
    { [mailbox |-> Mailbox1, key |-> KeyShort, iv |-> None],
      [mailbox |-> DefaultMailbox, key |-> DefaultKey, iv |-> KeyShort] }

Messages == { Str(<<"h", "i">>), Bytes(<<"y", "o">>), Bytes(<<"xFF">>) }

\* What the callers' clocks (datetime.utcnow) read, in microseconds.
ClockTimes ==
    { DateTime(2019, 2, 8, 23, 59, 54, 178999),
      DateTime(2019, 2, 8, 23, 59, 54, 179000),
      DateTime(2019, 2, 9, 0, 0, 14, 179001) }

\* What the service's clock reads, in milliseconds.
ServerTimes ==
    { DateTime(2019, 2, 8, 23, 59, 54, 180000),
      DateTime(2019, 2, 9, 0, 0, 4, 179000) }

\* The longest key and the longest iv of the key inputs.
MaxKeyLen == 34
MaxIvLen == 18

\* A key or iv of n characters, no two neighbours alike and none a space.
KeyOfLen(n) == Str([i \in 1..n |-> DigitChars[(i % 10) + 1]])

\* Constructor arguments of every key length, the iv omitted or of a length
\* around the 16 bytes it is brought to.
KeyCtorArgs ==
    { [mailbox |-> Mailbox1, key |-> KeyOfLen(n), iv |-> iv] :
        n \in 0..MaxKeyLen,
        iv \in {None} \cup {KeyOfLen(m) : m \in {0, 15, 16, 17, MaxIvLen}} }

\* A key and iv no session has: content of a publisher outside the model.
ForeignCrypto == CryptoDweet(Str(<<"z">>), Str(<<"z">>))

(***************************************************************************)
(* State                                                                   *)
(***************************************************************************)

VARIABLES
    sessions,   \* session id -> the Dweessenger object's fields, None before construction
    args,       \* session id -> the arguments it was constructed with (history)
    succeeded,  \* session id -> what its last successful send, get and new message gave (history)
    service,    \* thing -> the one latest dweet the service holds for it, if any
    lastOp,     \* the last call: who, what, the collaborator's answer, the outcome
    calls,      \* the number of calls made
    threads,    \* caller -> where it is in its call, when callers share a session
    publishes   \* the number of dweets published by callers that share a session

vars == <<sessions, args, succeeded, service, lastOp, calls, threads, publishes>>

\* What belongs to callers that run their calls step by step.
stepwise == <<threads, publishes>>

Constructed(s) == sessions[s] # None

\* The session's fields the four read accessors give.
Accessors(self) ==
    <<self.latest_send_message_time, self.latest_send_message,
      self.latest_get_message_time, self.latest_get_message>>

\* An exception the collaborator raised, or the value it returned.
Raised == [raised |-> TRUE, value |-> None]
Returned(v) == [raised |-> FALSE, value |-> v]

NoCall ==
    [session |-> "none", op |-> "none", answer |-> "none", outcome |-> "none",
     error |-> "none", value |-> None, hadRecord |-> FALSE, roundTrips |-> 0]

(***************************************************************************)
(* Dweessenger                                                             *)
(***************************************************************************)

\* A constructor that takes the key for iv whether an iv is given or not.
DweessengerIvFromKey(mailbox, aes_cbc_key, aes_cbc_iv) ==
    [mailbox |-> mailbox,
     aes_cbc_key |-> aes_cbc_key,
     aes_cbc_iv |-> aes_cbc_key,
     latest_send_message_time |-> None,
     latest_send_message |-> None,
     latest_get_message_time |-> None,
     latest_get_message |-> None]

\* Dweessenger.__init__
Dweessenger(mailbox, aes_cbc_key, aes_cbc_iv) ==
    [mailbox |-> mailbox,
     aes_cbc_key |-> aes_cbc_key,
     aes_cbc_iv |-> IF aes_cbc_iv = None THEN aes_cbc_key ELSE aes_cbc_iv,
     latest_send_message_time |-> None,
     latest_send_message |-> None,
     latest_get_message_time |-> None,
     latest_get_message |-> None]

\* The CryptoDweet a call of the session makes.
SessionCrypto(self) == CryptoDweet(self.aes_cbc_key, self.aes_cbc_iv)

SessionThing(self) == ThingOf(SessionCrypto(self), self.mailbox)

\* A send_message that keeps the message as passed, bytes undecoded.
send_messageKeepingBytes(self, message, utc_datetime, dweeted) ==
    IF dweeted.raised
    THEN [self |-> self, outcome |-> "raised", error |-> "DweessengerError",
          value |-> None]
    ELSE IF ~from_bytes(message).ok
    THEN [self |-> [self EXCEPT !.latest_send_message_time = utc_datetime],
          outcome |-> "raised", error |-> "UnicodeDecodeError", value |-> None]
    ELSE [self |-> [self EXCEPT
                      !.latest_send_message_time = utc_datetime,
                      !.latest_send_message = message],
          outcome |-> "returned", error |-> "none", value |-> dweeted.value]

\* A send_message that writes its time into the received record too.
send_messageIntoReceived(self, message, utc_datetime, dweeted) ==
    IF dweeted.raised
    THEN [self |-> self, outcome |-> "raised", error |-> "DweessengerError",
          value |-> None]
    ELSE IF ~from_bytes(message).ok
    THEN [self |-> [self EXCEPT !.latest_send_message_time = utc_datetime],
          outcome |-> "raised", error |-> "UnicodeDecodeError", value |-> None]
    ELSE [self |-> [self EXCEPT
                      !.latest_send_message_time = utc_datetime,
                      !.latest_get_message_time = utc_datetime,
                      !.latest_send_message = from_bytes(message).value],
          outcome |-> "returned", error |-> "none", value |-> dweeted.value]

\* self._latest_send_message_time = utc_datetime
StoreSendTime(self, utc_datetime) ==
    [self EXCEPT !.latest_send_message_time = utc_datetime]

\* self._latest_send_message = the text from_bytes gave
StoreSendMessage(self, text) == [self EXCEPT !.latest_send_message = text]

\* Dweessenger.send_message, given what the clock read and what dweet_for did:
\* the fields after the call and how the call ended.
send_message(self, message, utc_datetime, dweeted) ==
    IF dweeted.raised
    THEN [self |-> self, outcome |-> "raised", error |-> "DweessengerError",
          value |-> None]
    ELSE IF ~from_bytes(message).ok
    THEN [self |-> StoreSendTime(self, utc_datetime),
          outcome |-> "raised", error |-> "UnicodeDecodeError", value |-> None]
    ELSE [self |-> StoreSendMessage(StoreSendTime(self, utc_datetime),
                                    from_bytes(message).value),
          outcome |-> "returned", error |-> "none", value |-> dweeted.value]

\* The {time_string: message} of send_message.
SendContent(utc_datetime, message) ==
    <<[key |-> Str(get_string_from_utc_time(utc_datetime)), value |-> message]>>

\* An exception in the try block of get_latest_message.
ReadFailed ==
    [ok |-> FALSE, message |-> None, created_time |-> None, sent_time |-> None]

\* The end of the try block: the two times parsed.
ReadTimes(message, created_time, sent_time) ==
    IF ~created_time.ok \/ ~sent_time.ok THEN ReadFailed
    ELSE [ok |-> TRUE, message |-> message,
          created_time |-> created_time.value, sent_time |-> sent_time.value]

\* latest_dweet[0]['created'][:23] + u'000Z'
CreatedTimeString(created) == Prefix(created, 23) \o <<"0", "0", "0", "Z">>

\* The try block of get_latest_message on what get_latest_dweet_for did:
\* ok FALSE for any exception in it, else the message and the two times.
ReadLatestDweet(fetched) ==
    IF fetched.raised THEN ReadFailed
    ELSE IF Len(fetched.value) = 0 THEN ReadFailed
    ELSE IF ~({"content", "created"} \subseteq DOMAIN fetched.value[1])
    THEN ReadFailed
    ELSE IF Len(fetched.value[1].content) = 0 THEN ReadFailed
    ELSE ReadTimes(fetched.value[1].content[1].value,
                   get_utc_time_from_string(
                       CreatedTimeString(fetched.value[1].created)),
                   get_utc_time_from_string(
                       fetched.value[1].content[1].key.data))

\* The tolerance of get_latest_message, in seconds.
GapLimit == 10

\* A get_latest_message that stores the record before it checks the tolerance.
AcceptLatestStoringFirst(self, read) ==
    IF ~read.ok
    THEN [self |-> self, outcome |-> "raised", error |-> "DweessengerError",
          value |-> None]
    ELSE IF TotalSecondsExceeds(
                get_time_difference(read.created_time, read.sent_time), GapLimit)
    THEN [self |-> [self EXCEPT !.latest_get_message_time = read.sent_time,
                                !.latest_get_message = read.message],
          outcome |-> "raised", error |-> "DweessengerError", value |-> None]
    ELSE [self |-> [self EXCEPT !.latest_get_message_time = read.sent_time,
                                !.latest_get_message = read.message],
          outcome |-> "returned", error |-> "none", value |-> read.message]

\* sent_created_time_gap > 10, of the two times read
TooMuchGap(read) ==
    TotalSecondsExceeds(
        get_time_difference(read.created_time, read.sent_time), GapLimit)

\* self._latest_get_message_time = sent_time
StoreGetTime(self, sent_time) == [self EXCEPT !.latest_get_message_time = sent_time]

\* self._latest_get_message = message
StoreGetMessage(self, message) == [self EXCEPT !.latest_get_message = message]

\* return self._latest_get_message: the field as it is when the call returns.
ReturnStored(self) ==
    [self |-> self, outcome |-> "returned", error |-> "none",
     value |-> self.latest_get_message]

\* get_latest_message after its try block.
AcceptLatest(self, read) ==
    IF ~read.ok
    THEN [self |-> self, outcome |-> "raised", error |-> "DweessengerError",
          value |-> None]
    ELSE IF TooMuchGap(read)
    THEN [self |-> self, outcome |-> "raised", error |-> "DweessengerError",
          value |-> None]
    ELSE ReturnStored(StoreGetMessage(StoreGetTime(self, read.sent_time),
                                      read.message))

\* Dweessenger.get_latest_message, given what get_latest_dweet_for did.
get_latest_message(self, fetched) == AcceptLatest(self, ReadLatestDweet(fetched))

\* A get_new_message that also takes a record no earlier than the last as new.
NewOrNoneNotEarlier(last_message_time, this_message_time, got) ==
    IF got.outcome = "raised" THEN got
    ELSE IF \/ last_message_time = None
            \/ ~DateTimeGt(last_message_time, this_message_time)
    THEN got
    ELSE [got EXCEPT !.value = None]

\* A get_new_message that puts the previous time back when it returns None.
NewOrNoneKeepingTime(last_message_time, this_message_time, got) ==
    IF got.outcome = "raised" THEN got
    ELSE IF \/ last_message_time = None
            \/ DateTimeGt(this_message_time, last_message_time)
    THEN got
    ELSE [got EXCEPT !.value = None,
                     !.self.latest_get_message_time = last_message_time]

\* get_new_message after its call of get_latest_message, which ended as got
\* says: the comparison of the time read before the call with the time read
\* after it.
NewOrNone(last_message_time, this_message_time, got) ==
    IF got.outcome = "raised" THEN got
    ELSE IF \/ last_message_time = None
            \/ DateTimeGt(this_message_time, last_message_time)
    THEN got
    ELSE [got EXCEPT !.value = None]

\* The rest of get_new_message once get_latest_message has ended as got says:
\* this_message_time is read from the session as the call left it.
ThenCompare(last_message_time, got) ==
    NewOrNone(last_message_time, got.self.latest_get_message_time, got)

\* A get_new_message that compares with no previous time.
get_new_messageWithoutRecord(self, fetched) ==
    ThenCompare(None, get_latest_message(self, fetched))

\* Dweessenger.get_new_message, given what get_latest_dweet_for did.
get_new_message(self, fetched) ==
    ThenCompare(self.latest_get_message_time, get_latest_message(self, fetched))

(***************************************************************************)
(* The service and what the collaborator answers                           *)
(***************************************************************************)

\* The latest dweet the service holds for the thing, None when it has none.
LatestDweetFor(thing) ==
    IF thing \in DOMAIN service THEN service[thing] ELSE None

\* A service that keeps the first dweet of a thing and drops the later ones.
ServiceWithFirstKept(thing, stored) ==
    [t \in DOMAIN service \cup {thing} |->
        IF t \in DOMAIN service THEN service[t] ELSE stored]

\* The service once it has taken a dweet for the thing: it keeps the latest only.
ServiceWith(thing, stored) ==
    [t \in DOMAIN service \cup {thing} |-> IF t = thing THEN stored ELSE service[t]]

\* The ways get_latest_dweet_for ends: an exception, the latest dweet, or a
\* list that lacks what get_latest_message reads from it.
Answers ==
    {"raise", "latest", "empty_list", "no_content", "no_created",
     "empty_content", "short_created", "no_sent_time", "loose_times"}

\* The dweet get_latest_dweet_for returns for a stored one: content decrypted.
DecryptedDweet(cd, stored) ==
    [content |-> DecryptContent(cd, stored.dweet.content),
     created |-> stored.dweet.created]

\* A time string as another writer may spell it and strptime still reads it:
\* the letters in lower case, the zero a one-digit day begins with a space,
\* the year and the last digit of the seconds in Arabic-Indic digits.
LooseTimeString(s) ==
    [i \in 1..Len(s) |->
        IF i = 9 /\ s[i] = "0" THEN " "
        ELSE IF i \in {1, 2, 3, 4, 19} /\ IsAsciiDigit(s[i])
        THEN DecimalDigits[2][DigitVal(s[i]) + 1]
        ELSE Lower(s[i])]

\* The list get_latest_dweet_for returns for the answer chosen.
Answer(d, answer) ==
    CASE answer = "latest" -> Returned(<<d>>)
      [] answer = "empty_list" -> Returned(<<>>)
      [] answer = "no_content" -> Returned(<<[created |-> d.created]>>)
      [] answer = "no_created" -> Returned(<<[content |-> d.content]>>)
      [] answer = "empty_content" -> Returned(<<[d EXCEPT !.content = <<>>]>>)
      [] answer = "short_created" ->
            Returned(<<[d EXCEPT !.created = Prefix(d.created, 19) \o <<"Z">>]>>)
      [] answer = "no_sent_time" ->
            Returned(<<[d EXCEPT !.content[1].key = Str(<<"x">>)]>>)
      [] answer = "loose_times" ->
            Returned(<<[d EXCEPT
                !.created = LooseTimeString(d.created),
                !.content[1].key = Str(LooseTimeString(d.content[1].key.data))]>>)

\* What get_latest_dweet_for does for the session: it raises when told to, when
\* the service has nothing for the thing or when the content does not decrypt.
Fetched(cd, stored, answer) ==
    IF answer = "raise" THEN Raised
    ELSE IF stored = None THEN Raised
    ELSE IF ~ContentReadable(cd, stored.dweet.content) THEN Raised
    ELSE Answer(DecryptedDweet(cd, stored), answer)

\* The dweet the service keeps, and the response of dweet_for, for a publish.
StoredDweet(thing, content, serverNow) ==
    [thing |-> thing, content |-> content,
     created |-> ServerCreatedString(serverNow), transaction |-> "tx"]

(***************************************************************************)
(* Actions                                                                 *)
(***************************************************************************)

\* The callers that share one session.
Callers == {"a", "b"}

\* A caller that has made no call: pc is where it is in its call, last the
\* last_message_time of get_new_message, read what the try block of
\* get_latest_message gave, trips the collaborator calls of the present call,
\* fetchedAt the number of publishes at its fetch, overlapped whether the call ran while
\* another caller's did.
NotCalling ==
    [pc |-> "idle", session |-> "none", op |-> "none", now |-> None,
     message |-> None, last |-> None, this_time |-> None, read |-> None,
     response |-> None,
     trips |-> 0, outcome |-> "none", error |-> "none", value |-> None,
     fetchedAt |-> 0, overlapped |-> FALSE]

Init ==
    /\ sessions = [s \in SessionIds |-> None]
    /\ args = [s \in SessionIds |-> None]
    /\ succeeded = [s \in SessionIds |-> [send |-> None, get |-> None, new |-> None]]
    /\ service = [t \in {} |-> None]
    /\ lastOp = NoCall
    /\ calls = 0
    /\ threads = [c \in Callers |-> NotCalling]
    /\ publishes = 0

\* A caller constructs its session.
Construct(s, a) ==
    /\ ~Constructed(s)
    /\ sessions' = [sessions EXCEPT ![s] = Dweessenger(a.mailbox, a.key, a.iv)]
    /\ args' = [args EXCEPT ![s] = a]
    /\ lastOp' = [NoCall EXCEPT !.session = s, !.op = "construct",
                                !.outcome = "returned"]
    /\ UNCHANGED <<succeeded, service, calls, stepwise>>

\* The time and the text a successful call was about.
Done(time, message) == [time |-> time, message |-> Str(message.data)]

\* The session and the record of the call once it has ended; done is what the
\* call was about, remembered when it succeeds.
EndCall(s, op, answer, res, done) ==
    /\ sessions' = [sessions EXCEPT ![s] = res.self]
    /\ succeeded' = IF res.outcome # "returned" THEN succeeded
                    ELSE IF op = "send_message"
                    THEN [succeeded EXCEPT ![s].send = done]
                    ELSE IF op = "get_new_message" /\ res.value # None
                    THEN [succeeded EXCEPT ![s].get = done, ![s].new = done]
                    ELSE [succeeded EXCEPT ![s].get = done]
    /\ lastOp' = [session |-> s, op |-> op, answer |-> answer,
                  outcome |-> res.outcome, error |-> res.error,
                  value |-> res.value,
                  hadRecord |-> sessions[s].latest_get_message_time # None,
                  roundTrips |-> 1]
    /\ calls' = calls + 1

\* The service takes the dweet of a session.
Store(s, thing, dweet, message, now, serverNow) ==
    service' = ServiceWith(thing,
                  [dweet |-> dweet, sentAt |-> now, createdAt |-> serverNow,
                   sender |-> s, message |-> message, republished |-> FALSE])

\* send_message once dweet_for has posted the dweet.
Delivered(s, message, now, serverNow, thing, dweet) ==
    /\ Store(s, thing, dweet, message, now, serverNow)
    /\ EndCall(s, "send_message", "response",
               send_message(sessions[s], message, now, Returned(dweet)),
               Done(now, message))

\* send_message(message): the clock reads now, and dweet_for raises
\* (delivered FALSE) or the service stores the dweet at serverNow and answers.
SendMessage(s, message, now, delivered, serverNow) ==
    /\ Constructed(s)
    /\ IF delivered
       THEN Delivered(s, message, now, serverNow, SessionThing(sessions[s]),
                      StoredDweet(SessionThing(sessions[s]),
                                  EncryptContent(SessionCrypto(sessions[s]),
                                                 SendContent(now, message)),
                                  serverNow))
       ELSE /\ serverNow = CHOOSE t \in ServerTimes : TRUE
            /\ EndCall(s, "send_message", "raise",
                       send_message(sessions[s], message, now, Raised),
                       Done(now, message))
            /\ UNCHANGED service
    /\ UNCHANGED <<args, stepwise>>

\* A get once get_latest_dweet_for has answered.
Got(s, op, answer, stored, fetched) ==
    EndCall(s, op, IF fetched.raised THEN "raise" ELSE answer,
            IF op = "get_new_message"
            THEN get_new_message(sessions[s], fetched)
            ELSE get_latest_message(sessions[s], fetched),
            IF stored = None THEN None ELSE Done(stored.sentAt, stored.message))

GetMessage(s, op, answer) ==
    /\ Constructed(s)
    /\ Got(s, op, answer, LatestDweetFor(SessionThing(sessions[s])),
           Fetched(SessionCrypto(sessions[s]),
                   LatestDweetFor(SessionThing(sessions[s])), answer))
    /\ UNCHANGED <<args, service, stepwise>>

\* get_latest_message(), the collaborator answering as chosen.
GetLatestMessage(s, answer) == GetMessage(s, "get_latest_message", answer)

\* get_new_message(), the collaborator answering as chosen.
GetNewMessage(s, answer) == GetMessage(s, "get_new_message", answer)

\* The service takes, under a new date, what someone else publishes.
Publish(thing, stored, op) ==
    /\ service' = ServiceWith(thing, stored)
    /\ lastOp' = [NoCall EXCEPT !.op = op]
    /\ calls' = calls + 1
    /\ UNCHANGED <<sessions, args, succeeded, stepwise>>

\* Someone else publishes the present content of the session's mailbox again
\* (the duplication the comment in get_latest_message speaks of).
Republish(s, serverNow) ==
    /\ Constructed(s)
    /\ LatestDweetFor(SessionThing(sessions[s])) # None
    /\ Publish(SessionThing(sessions[s]),
               [LatestDweetFor(SessionThing(sessions[s])) EXCEPT
                  !.dweet.created = ServerCreatedString(serverNow),
                  !.createdAt = serverNow,
                  !.republished = TRUE],
               "republish")

\* Someone without the key publishes to the session's mailbox.
ForeignPublish(s, serverNow) ==
    /\ Constructed(s)
    /\ Publish(SessionThing(sessions[s]),
               [dweet |-> StoredDweet(SessionThing(sessions[s]),
                              EncryptContent(ForeignCrypto,
                                  SendContent(serverNow, Str(<<"z">>))),
                              serverNow),
                sentAt |-> serverNow, createdAt |-> serverNow,
                sender |-> "other", message |-> Str(<<"z">>),
                republished |-> FALSE],
               "foreign_publish")

\* Any call of any session, and any other publisher, MaxCalls times in all.
Next ==
    \/ \E s \in SessionIds, a \in CtorArgs : Construct(s, a)
    \/ \E s \in SessionIds, m \in Messages, now \in ClockTimes,
          delivered \in BOOLEAN, serverNow \in ServerTimes :
            calls < MaxCalls /\ SendMessage(s, m, now, delivered, serverNow)
    \/ \E s \in SessionIds, answer \in Answers :
            calls < MaxCalls /\ GetLatestMessage(s, answer)
    \/ \E s \in SessionIds, answer \in Answers :
            calls < MaxCalls /\ GetNewMessage(s, answer)
    \/ \E s \in SessionIds, serverNow \in ServerTimes :
            calls < MaxCalls /\ Republish(s, serverNow)
    \/ \E s \in SessionIds, serverNow \in ServerTimes :
            calls < MaxCalls /\ ForeignPublish(s, serverNow)

Spec == Init /\ [][Next]_vars

\* A session of any key length, publishing once.
NextKeys ==
    \/ \E s \in SessionIds, a \in KeyCtorArgs : Construct(s, a)
    \/ \E s \in SessionIds, now \in ClockTimes, serverNow \in ServerTimes :
          /\ calls = 0
          /\ SendMessage(s, Str(<<"h", "i">>), now, TRUE, serverNow)

SpecKeys == Init /\ [][NextKeys]_vars

\* The calls of the specification of polls, in all.
MaxPolls == 6

\* The clocks of senders that differ by a second or two, all within the
\* tolerance of the time the service dates their dweets.
PollClockTimes == { DateTime(2019, 2, 9, 0, 0, sec, 0) : sec \in 1..3 }

PollServerTime == DateTime(2019, 2, 9, 0, 0, 4, 179000)

\* Senders that share the mailbox and its key publish text messages, each
\* stamped by its own clock, and the session polls in between.
NextPolls ==
    \/ \E s \in SessionIds :
          Construct(s, [mailbox |-> Mailbox1, key |-> KeyShort, iv |-> None])
    \/ \E s \in SessionIds, m \in {Str(<<"h", "i">>), Str(<<"y", "o">>)},
          now \in PollClockTimes :
            calls < MaxPolls /\ SendMessage(s, m, now, TRUE, PollServerTime)
    \/ \E s \in SessionIds :
            calls < MaxPolls /\ GetLatestMessage(s, "latest")
    \/ \E s \in SessionIds :
            calls < MaxPolls /\ GetNewMessage(s, "latest")

SpecPolls == Init /\ [][NextPolls]_vars

\* A first message is published, then another publish to the mailbox happens
\* before any poll, and only then the session polls.
NextLoss ==
    \/ \E s \in SessionIds, a \in CtorArgs : Construct(s, a)
    \/ \E s \in SessionIds, now \in ClockTimes, serverNow \in ServerTimes :
            calls = 0 /\ SendMessage(s, Str(<<"h", "i">>), now, TRUE, serverNow)
    \/ \E s \in SessionIds, now \in ClockTimes, serverNow \in ServerTimes :
            calls = 1 /\ SendMessage(s, Bytes(<<"y", "o">>), now, TRUE, serverNow)
    \/ \E s \in SessionIds, serverNow \in ServerTimes :
            calls = 1 /\ ForeignPublish(s, serverNow)
    \/ \E s \in SessionIds, answer \in Answers :
            calls \in 2..(MaxCalls - 1) /\ GetLatestMessage(s, answer)
    \/ \E s \in SessionIds, answer \in Answers :
            calls \in 2..(MaxCalls - 1) /\ GetNewMessage(s, answer)
    \/ \E s \in SessionIds, serverNow \in ServerTimes :
            calls \in 2..(MaxCalls - 1) /\ Republish(s, serverNow)

SpecLoss == Init /\ [][NextLoss]_vars

(***************************************************************************)
(* Callers that share one session, their calls running statement by        *)
(* statement with nothing to keep them apart                               *)
(***************************************************************************)

\* The calls the callers make, in all.
MaxThreadCalls == 4

MidCall(c) == threads[c].pc # "idle"

\* A call that tries its collaborator call again when it failed.
AfterRoundTripRetrying(pc, failed, next) == IF failed THEN pc ELSE next

\* Where a call goes after its one collaborator call: on with the next
\* statement, or out of the method by the raise of its except clause.
AfterRoundTrip(pc, failed, next) == IF failed THEN "idle" ELSE next

\* The callers once c has begun a call: c and the callers whose calls are under
\* way have run a call while another caller did, now or before.
Begin(c, called) ==
    threads' = [d \in Callers |->
                  IF d = c
                  THEN [called EXCEPT
                          !.overlapped = \/ threads[c].overlapped
                                         \/ \E e \in Callers \ {c} : MidCall(e)]
                  ELSE [threads[d] EXCEPT !.overlapped = @ \/ MidCall(d)]]

\* send_message up to its try block: the clock is read.
StartSend(c, s, message, now) ==
    /\ ~MidCall(c)
    /\ Constructed(s)
    /\ Begin(c, [NotCalling EXCEPT !.pc = "dweet_for", !.session = s,
                                   !.op = "send_message", !.now = now,
                                   !.message = message])
    /\ calls' = calls + 1
    /\ UNCHANGED <<sessions, args, succeeded, service, lastOp, publishes>>

\* The try block of send_message for a dweet_for that raises.
NotDelivered(c, t, res) ==
    /\ threads' = [threads EXCEPT ![c] =
                     [t EXCEPT !.pc = AfterRoundTrip(t.pc, TRUE, "set_send_time"),
                               !.trips = @ + 1,
                               !.outcome = res.outcome, !.error = res.error,
                               !.value = res.value]]
    /\ UNCHANGED <<sessions, args, succeeded, service, lastOp, calls, publishes>>

\* The try block of send_message for a dweet_for that posts the dweet.
Posted(c, t, thing, dweet, serverNow) ==
    /\ Store(t.session, thing, dweet, t.message, t.now, serverNow)
    /\ publishes' = publishes + 1
    /\ threads' = [threads EXCEPT ![c] =
                     [t EXCEPT !.pc = AfterRoundTrip(t.pc, FALSE, "set_send_time"),
                               !.trips = @ + 1, !.response = dweet]]
    /\ UNCHANGED <<sessions, args, succeeded, lastOp, calls>>

\* The try block of send_message: the one call of dweet_for.
DweetFor(c, delivered, serverNow) ==
    /\ threads[c].pc = "dweet_for"
    /\ IF delivered
       THEN Posted(c, threads[c], SessionThing(sessions[threads[c].session]),
                   StoredDweet(SessionThing(sessions[threads[c].session]),
                               EncryptContent(
                                   SessionCrypto(sessions[threads[c].session]),
                                   SendContent(threads[c].now, threads[c].message)),
                               serverNow),
                   serverNow)
       ELSE NotDelivered(c, threads[c],
                         send_message(sessions[threads[c].session],
                                      threads[c].message, threads[c].now, Raised))

\* The call of c ends with what res says, the session as res leaves it.
Finish(c, t, res) ==
    /\ sessions' = [sessions EXCEPT ![t.session] = res.self]
    /\ threads' = [threads EXCEPT ![c] =
                     [t EXCEPT !.pc = "idle", !.now = None, !.message = None,
                               !.response = None, !.read = None,
                               !.this_time = None,
                               !.outcome = res.outcome, !.error = res.error,
                               !.value = res.value]]
    /\ UNCHANGED <<args, succeeded, service, lastOp, calls, publishes>>

\* The call of c goes on to the statement at pc, the session now self.
GoOn(c, t, self, pc) ==
    /\ sessions' = [sessions EXCEPT ![t.session] = self]
    /\ threads' = [threads EXCEPT ![c] = [t EXCEPT !.pc = pc]]
    /\ UNCHANGED <<args, succeeded, service, lastOp, calls, publishes>>

\* self._latest_send_message_time = utc_datetime
SetSendTime(c) ==
    /\ threads[c].pc = "set_send_time"
    /\ GoOn(c, threads[c],
            StoreSendTime(sessions[threads[c].session], threads[c].now),
            "set_send_message")

\* self._latest_send_message = from_bytes(message), for what from_bytes did:
\* its UnicodeDecodeError leaves the method with nothing assigned.
SettingSendMessage(c, t, text) ==
    IF text.ok
    THEN GoOn(c, t, StoreSendMessage(sessions[t.session], text.value),
              "return_response")
    ELSE Finish(c, t, [self |-> sessions[t.session], outcome |-> "raised",
                       error |-> "UnicodeDecodeError", value |-> None])

\* self._latest_send_message = from_bytes(message)
SetSendMessage(c) ==
    /\ threads[c].pc = "set_send_message"
    /\ SettingSendMessage(c, threads[c], from_bytes(threads[c].message))

\* return response
ReturnResponse(c) ==
    /\ threads[c].pc = "return_response"
    /\ Finish(c, threads[c],
              [self |-> sessions[threads[c].session], outcome |-> "returned",
               error |-> "none", value |-> threads[c].response])

\* get_latest_message, or get_new_message up to its call of
\* get_latest_message: last_message_time is read.
StartGet(c, s, op) ==
    /\ ~MidCall(c)
    /\ Constructed(s)
    /\ Begin(c, [NotCalling EXCEPT
                   !.pc = "fetch", !.session = s, !.op = op,
                   !.last = IF op = "get_new_message"
                            THEN sessions[s].latest_get_message_time ELSE None])
    /\ calls' = calls + 1
    /\ UNCHANGED <<sessions, args, succeeded, service, lastOp, publishes>>

\* The try block of get_latest_message has given read.
Fetching(c, t, read) ==
    /\ threads' = [threads EXCEPT ![c] =
                     IF read.ok
                     THEN [t EXCEPT !.pc = AfterRoundTrip(t.pc, FALSE, "check_gap"),
                                    !.trips = @ + 1, !.fetchedAt = publishes,
                                    !.read = read]
                     ELSE [t EXCEPT !.pc = AfterRoundTrip(t.pc, TRUE, "check_gap"),
                                    !.trips = @ + 1, !.fetchedAt = publishes,
                                    !.outcome = "raised",
                                    !.error = "DweessengerError"]]
    /\ UNCHANGED <<sessions, args, succeeded, service, lastOp, calls, publishes>>

\* The try block of get_latest_message: the one call of get_latest_dweet_for.
Fetch(c, answer) ==
    /\ threads[c].pc = "fetch"
    /\ Fetching(c, threads[c],
                ReadLatestDweet(
                    Fetched(SessionCrypto(sessions[threads[c].session]),
                            LatestDweetFor(SessionThing(sessions[threads[c].session])),
                            answer)))

\* The tolerance check of get_latest_message on the times it read.
CheckGap(c) ==
    /\ threads[c].pc = "check_gap"
    /\ IF TooMuchGap(threads[c].read)
       THEN Finish(c, threads[c],
                   [self |-> sessions[threads[c].session], outcome |-> "raised",
                    error |-> "DweessengerError", value |-> None])
       ELSE GoOn(c, threads[c], sessions[threads[c].session], "set_get_time")

\* self._latest_get_message_time = sent_time
SetGetTime(c) ==
    /\ threads[c].pc = "set_get_time"
    /\ GoOn(c, threads[c],
            StoreGetTime(sessions[threads[c].session], threads[c].read.sent_time),
            "set_get_message")

\* self._latest_get_message = message
SetGetMessage(c) ==
    /\ threads[c].pc = "set_get_message"
    /\ GoOn(c, threads[c],
            StoreGetMessage(sessions[threads[c].session], threads[c].read.message),
            "return_message")

\* get_latest_message has returned res.value into get_new_message, which
\* keeps it as this_message.
Returning(c, t, res) ==
    /\ threads' = [threads EXCEPT ![c] =
                     [t EXCEPT !.pc = "read_time", !.read = None,
                               !.value = res.value]]
    /\ UNCHANGED <<sessions, args, succeeded, service, lastOp, calls, publishes>>

\* return self._latest_get_message: the field is read again, whoever assigned
\* it last, and is the result of get_latest_message.
ReturnMessage(c) ==
    /\ threads[c].pc = "return_message"
    /\ IF threads[c].op = "get_new_message"
       THEN Returning(c, threads[c], ReturnStored(sessions[threads[c].session]))
       ELSE Finish(c, threads[c], ReturnStored(sessions[threads[c].session]))

\* this_message_time = self._latest_get_message_time
ReadTime(c) ==
    /\ threads[c].pc = "read_time"
    /\ threads' = [threads EXCEPT ![c] =
                     [threads[c] EXCEPT
                        !.pc = "compare",
                        !.this_time =
                            sessions[threads[c].session].latest_get_message_time]]
    /\ UNCHANGED <<sessions, args, succeeded, service, lastOp, calls, publishes>>

\* The comparison of get_new_message and its return, of this_message or None.
Compare(c) ==
    /\ threads[c].pc = "compare"
    /\ Finish(c, threads[c],
              NewOrNone(threads[c].last, threads[c].this_time,
                        [self |-> sessions[threads[c].session],
                         outcome |-> "returned", error |-> "none",
                         value |-> threads[c].value]))

\* What the clock reads when the callers send.
ThreadClockTimes == { DateTime(2019, 2, 9, 0, 0, sec, 0) : sec \in 1..2 }

\* The messages the callers send.
ThreadMessages == {Str(<<"h", "i">>), Str(<<"y", "o">>), Bytes(<<"xFF">>)}

NextThreads ==
    \/ \E s \in SessionIds :
          Construct(s, [mailbox |-> Mailbox1, key |-> KeyShort, iv |-> None])
    \/ \E c \in Callers, s \in SessionIds, message \in ThreadMessages,
          now \in ThreadClockTimes :
            calls < MaxThreadCalls /\ StartSend(c, s, message, now)
    \/ \E c \in Callers, delivered \in BOOLEAN : DweetFor(c, delivered, PollServerTime)
    \/ \E c \in Callers : SetSendTime(c)
    \/ \E c \in Callers : SetSendMessage(c)
    \/ \E c \in Callers : ReturnResponse(c)
    \/ \E c \in Callers, s \in SessionIds,
          op \in {"get_latest_message", "get_new_message"} :
            calls < MaxThreadCalls /\ StartGet(c, s, op)
    \/ \E c \in Callers, answer \in {"latest", "raise"} : Fetch(c, answer)
    \/ \E c \in Callers : CheckGap(c)
    \/ \E c \in Callers : SetGetTime(c)
    \/ \E c \in Callers : SetGetMessage(c)
    \/ \E c \in Callers : ReturnMessage(c)
    \/ \E c \in Callers : ReadTime(c)
    \/ \E c \in Callers : Compare(c)

SpecThreads == Init /\ [][NextThreads]_vars

(***************************************************************************)
(* Properties                                                              *)
(***************************************************************************)

IsGet(op) == op \in {"get_latest_message", "get_new_message"}

\* What the service holds for the session's mailbox.
StoredFor(s) == LatestDweetFor(SessionThing(sessions[s]))

\* The time all modelled clocks are close to.
Epoch == DateTime(2019, 2, 8, 23, 59, 0, 0)

\* The microseconds from Epoch to dt.
Micros(dt) ==
    ((ToOrdinal(dt) - ToOrdinal(Epoch)) * 86400
       + SecondsOfDay(dt) - SecondsOfDay(Epoch)) * 1000000 + dt.microsecond

\* Whether a and b are more than ten seconds apart, either way round.
MoreThanTenSecondsApart(a, b) ==
    \/ Micros(a) - Micros(b) > 10000000
    \/ Micros(b) - Micros(a) > 10000000

\* The answers that hand the session the latest dweet with the times it was
\* stored with, in the service's spelling or in a looser one strptime reads.
HandedOver(answer) == answer \in {"latest", "loose_times"}

\* The latest dweet is given to the session as the service holds it, and its
\* sent time and created time are more than ten seconds apart.
FetchesStale(s) ==
    /\ lastOp'.session = s
    /\ IsGet(lastOp'.op)
    /\ HandedOver(lastOp'.answer)
    /\ MoreThanTenSecondsApart(StoredFor(s).createdAt, StoredFor(s).sentAt)

\* C1: a get that fetches a record whose embedded sent time is more than 10
\* seconds earlier, or later, than the service's created time fails with
\* DweessengerError, and latest_get_message_time and latest_get_message keep
\* the values they had before the call.
C1_StaleRecordRejected ==
    [][\A s \in SessionIds :
          FetchesStale(s) =>
            /\ lastOp'.outcome = "raised"
            /\ lastOp'.error = "DweessengerError"
            /\ sessions'[s].latest_get_message_time
                 = sessions[s].latest_get_message_time
            /\ sessions'[s].latest_get_message = sessions[s].latest_get_message]_vars

\* A get_latest_message has failed on a record sent more than 10 seconds
\* before the service dated it, the session keeping an earlier record.
C1_Witness ==
    \E s \in SessionIds :
        /\ lastOp.session = s
        /\ lastOp.op = "get_latest_message"
        /\ lastOp.answer = "latest"
        /\ lastOp.outcome = "raised"
        /\ Micros(StoredFor(s).createdAt) - Micros(StoredFor(s).sentAt) > 10000000
        /\ sessions[s].latest_get_message_time # None

\* The session has just fetched, unaltered, the text message it sent itself
\* and nobody published since, the service having dated it within 10 seconds.
FetchedOwnText(s) ==
    /\ lastOp.session = s
    /\ lastOp.op = "get_latest_message"
    /\ HandedOver(lastOp.answer)
    /\ StoredFor(s).sender = s
    /\ ~StoredFor(s).republished
    /\ StoredFor(s).message.kind = "str"
    /\ ~MoreThanTenSecondsApart(StoredFor(s).createdAt, StoredFor(s).sentAt)

\* C2: send_message(m) of a text m followed by get_latest_message() with the
\* same mailbox, key and iv, nothing published in between and the created time
\* within 10 seconds of the send time, returns m, and latest_get_message_time
\* is the sender's latest_send_message_time: the time embedded in the payload.
C2_RoundTrip ==
    \A s \in SessionIds :
        (Constructed(s) /\ FetchedOwnText(s)) =>
            /\ lastOp.outcome = "returned"
            /\ lastOp.value = StoredFor(s).message
            /\ sessions[s].latest_get_message = StoredFor(s).message
            /\ sessions[s].latest_send_message_time = StoredFor(s).sentAt
            /\ sessions[s].latest_get_message_time
                 = sessions[s].latest_send_message_time

\* A round trip of a message sent at a time that is no whole millisecond and
\* is not the time the service dated it.
C2_Witness ==
    \E s \in SessionIds :
        /\ Constructed(s)
        /\ FetchedOwnText(s)
        /\ lastOp.outcome = "returned"
        /\ sessions[s].latest_get_message_time.microsecond % 1000 # 0
        /\ sessions[s].latest_get_message_time # StoredFor(s).createdAt

\* C3: get_new_message returns the fetched message when the session had no
\* ReceivedRecord or the fetched record's sent time is strictly later than the
\* previous record's, and None otherwise; a second get_new_message right after
\* a successful one, nothing published in between, returns None.
C3_NewMessageOnlyWhenLater ==
    [][\A s \in SessionIds :
          (lastOp'.session = s /\ lastOp'.op = "get_new_message"
             /\ lastOp'.outcome = "returned") =>
            /\ lastOp'.value =
                 IF \/ sessions[s].latest_get_message_time = None
                    \/ Micros(StoredFor(s).sentAt)
                         > Micros(sessions[s].latest_get_message_time)
                 THEN Str(StoredFor(s).message.data)
                 ELSE None
            /\ (lastOp.session = s /\ lastOp.op = "get_new_message"
                  /\ lastOp.outcome = "returned") => lastOp'.value = None]_vars

\* get_new_message has returned a message to a session that had a record.
C3_Witness ==
    \E s \in SessionIds :
        /\ lastOp.session = s
        /\ lastOp.op = "get_new_message"
        /\ lastOp.outcome = "returned"
        /\ lastOp.hadRecord
        /\ lastOp.value # None

\* C4: when get_latest_message or get_new_message fails, whatever the failure,
\* the four read accessors give what they gave before the call.
C4_FailedGetChangesNothing ==
    [][\A s \in SessionIds :
          (lastOp'.session = s /\ IsGet(lastOp'.op) /\ lastOp'.outcome = "raised")
            => Accessors(sessions'[s]) = Accessors(sessions[s])]_vars

\* A get has failed on a session that holds a sent and a received record.
C4_Witness ==
    \E s \in SessionIds :
        /\ lastOp.session = s
        /\ lastOp.op = "get_new_message"
        /\ lastOp.outcome = "raised"
        /\ lastOp.answer = "latest"
        /\ sessions[s].latest_send_message # None
        /\ sessions[s].latest_get_message # None

\* C5: whenever send_message fails, for any reason, it fails with
\* DweessengerError and neither latest_send_message_time nor
\* latest_send_message is changed.
C5_FailedSendChangesNothing ==
    [][\A s \in SessionIds :
          (lastOp'.session = s /\ lastOp'.op = "send_message"
             /\ lastOp'.outcome = "raised") =>
            /\ lastOp'.error = "DweessengerError"
            /\ sessions'[s].latest_send_message_time
                 = sessions[s].latest_send_message_time
            /\ sessions'[s].latest_send_message = sessions[s].latest_send_message]_vars

\* C6: in every reachable state of a session latest_send_message_time is None
\* exactly when latest_send_message is, latest_get_message_time is None exactly
\* when latest_get_message is, and the time and the message of each record are
\* those of one and the same successful call.
C6_RecordsAreAtomic ==
    \A s \in SessionIds :
        Constructed(s) =>
            /\ sessions[s].latest_send_message_time = None
                 <=> sessions[s].latest_send_message = None
            /\ sessions[s].latest_get_message_time = None
                 <=> sessions[s].latest_get_message = None
            /\ succeeded[s].send # None =>
                 /\ sessions[s].latest_send_message_time = succeeded[s].send.time
                 /\ sessions[s].latest_send_message = succeeded[s].send.message
            /\ succeeded[s].get # None =>
                 /\ sessions[s].latest_get_message_time = succeeded[s].get.time
                 /\ sessions[s].latest_get_message = succeeded[s].get.message

\* C7: every error of send_message, get_latest_message and get_new_message is
\* a DweessengerError, whatever the collaborator does and whatever bytes or
\* text message is passed.
C7_SingleErrorKind ==
    lastOp.outcome = "raised" => lastOp.error = "DweessengerError"

\* The ciphertext of the message the service holds for the session's mailbox.
StoredCipher(s) == StoredFor(s).dweet.content[1].value

\* Whether padded is s followed by spaces up to the length n.
IsSpacePadded(padded, s, n) ==
    /\ Len(padded) = n
    /\ Len(s) <= n
    /\ \A i \in 1..n : padded[i] = IF i <= Len(s) THEN s[i] ELSE " "

\* Whether cut is the first n of s.
IsTruncated(cut, s, n) ==
    /\ Len(cut) = n
    /\ Len(s) >= n
    /\ \A i \in 1..n : cut[i] = s[i]

\* The session has sent a message that the service holds.
HasSent(s) ==
    /\ Constructed(s)
    /\ StoredFor(s) # None
    /\ StoredFor(s).sender = s

\* C8: a key shorter than 16 is padded with spaces to 16 bytes, a key of 16 to
\* 32 is padded with spaces to 32 bytes, a longer key is truncated to 32
\* bytes, and the iv is padded with spaces or truncated to 16 bytes; so the
\* key that encrypts has length 16 or 32 and the iv length 16.
C8_KeyNormalization ==
    \A s \in SessionIds :
        HasSent(s) =>
            /\ Len(StoredCipher(s).key) \in {16, 32}
            /\ Len(StoredCipher(s).iv) = 16
            /\ Len(args[s].key.data) < 16 =>
                 IsSpacePadded(StoredCipher(s).key, args[s].key.data, 16)
            /\ Len(args[s].key.data) \in 16..32 =>
                 IsSpacePadded(StoredCipher(s).key, args[s].key.data, 32)
            /\ Len(args[s].key.data) > 32 =>
                 IsTruncated(StoredCipher(s).key, args[s].key.data, 32)
            /\ Len(sessions[s].aes_cbc_iv.data) <= 16 =>
                 IsSpacePadded(StoredCipher(s).iv, sessions[s].aes_cbc_iv.data, 16)
            /\ Len(sessions[s].aes_cbc_iv.data) > 16 =>
                 IsTruncated(StoredCipher(s).iv, sessions[s].aes_cbc_iv.data, 16)

\* A message encrypted under a key that was given longer than 32 and an iv
\* that was given longer than 16.
C8_Witness ==
    \E s \in SessionIds :
        /\ HasSent(s)
        /\ Len(args[s].key.data) > 32
        /\ args[s].iv # None
        /\ Len(args[s].iv.data) > 16
        /\ Len(StoredCipher(s).key) = 32
        /\ Len(StoredCipher(s).iv) = 16

\* The iv of a session before normalization, by what it was constructed with.
GivenIv(a) == IF a.iv = None THEN a.key ELSE a.iv

\* C9: a session constructed without an iv has for iv the key it was given, a
\* session constructed with an iv has that iv, both as given; the key and the
\* iv are normalized each on its own when a call encrypts.
C9_DefaultIv ==
    \A s \in SessionIds :
        Constructed(s) =>
            /\ sessions[s].aes_cbc_key = args[s].key
            /\ args[s].iv = None => sessions[s].aes_cbc_iv = args[s].key
            /\ args[s].iv # None => sessions[s].aes_cbc_iv = args[s].iv
            /\ HasSent(s) =>
                 /\ StoredCipher(s).key = NormalizeKey(args[s].key.data)
                 /\ StoredCipher(s).iv = NormalizeIv(GivenIv(args[s]).data)

\* A session constructed with a key of 20 and no iv has sent a message: the
\* key that encrypted it has 32 bytes and the iv 16.
C9_Witness ==
    \E s \in SessionIds :
        /\ HasSent(s)
        /\ args[s].iv = None
        /\ Len(args[s].key.data) = 20
        /\ sessions[s].aes_cbc_iv = sessions[s].aes_cbc_key
        /\ Len(StoredCipher(s).key) = 32
        /\ Len(StoredCipher(s).iv) = 16

\* C10: construction calls no collaborator, latest_send_message_time and
\* latest_send_message are None as long as no send_message has succeeded, and
\* latest_get_message_time and latest_get_message are None as long as no
\* get_latest_message, called directly or by get_new_message, has succeeded.
C10_NullUntilSuccess ==
    /\ lastOp.op = "construct" => lastOp.roundTrips = 0
    /\ \A s \in SessionIds :
          Constructed(s) =>
            /\ succeeded[s].send = None =>
                 /\ sessions[s].latest_send_message_time = None
                 /\ sessions[s].latest_send_message = None
            /\ succeeded[s].get = None =>
                 /\ sessions[s].latest_get_message_time = None
                 /\ sessions[s].latest_get_message = None

\* C11: on success send_message returns the response of the collaborator as
\* it is and sets latest_send_message_time to the one time read at the start of
\* the call, the time whose string is the key of the published mapping, and
\* latest_send_message to the message decoded as text.
C11_SendRecordsWhatItPublished ==
    \A s \in SessionIds :
        (lastOp.session = s /\ lastOp.op = "send_message"
           /\ lastOp.outcome = "returned") =>
            /\ HasSent(s)
            /\ lastOp.value = StoredFor(s).dweet
            /\ sessions[s].latest_send_message_time = StoredFor(s).sentAt
            /\ get_utc_time_from_string(StoredFor(s).dweet.content[1].key.plain)
                 = [ok |-> TRUE, value |-> sessions[s].latest_send_message_time]
            /\ Len(StoredFor(s).dweet.content) = 1
            /\ StoredCipher(s).plain = StoredFor(s).message.data
            /\ sessions[s].latest_send_message.kind = "str"
            /\ sessions[s].latest_send_message.data = StoredFor(s).message.data

\* A send_message of a bytes message has succeeded at a time that is no whole
\* millisecond.
C11_Witness ==
    \E s \in SessionIds :
        /\ lastOp.session = s
        /\ lastOp.op = "send_message"
        /\ lastOp.outcome = "returned"
        /\ StoredFor(s).message.kind = "bytes"
        /\ sessions[s].latest_send_message.kind = "str"
        /\ sessions[s].latest_send_message_time.microsecond % 1000 # 0

\* The created time get_latest_message compares: the service's, its
\* microseconds cut to whole milliseconds.
CreatedToMillisecond(r) ==
    [r.createdAt EXCEPT !.microsecond = (r.createdAt.microsecond \div 1000) * 1000]

\* The microseconds between the created time and the sent time of a record.
GapMicros(r) ==
    IF Micros(CreatedToMillisecond(r)) >= Micros(r.sentAt)
    THEN Micros(CreatedToMillisecond(r)) - Micros(r.sentAt)
    ELSE Micros(r.sentAt) - Micros(CreatedToMillisecond(r))

\* C15: get_latest_message accepts a fetched record exactly when its created
\* time, cut to milliseconds, and its sent time, in microseconds, are no more
\* than 10 seconds apart: a gap of 10.000000 seconds is accepted and stored, one
\* of 10.000001 seconds is rejected, and no record is stored without this check.
C15_FreshnessBoundary ==
    [][\A s \in SessionIds :
          (lastOp'.session = s /\ IsGet(lastOp'.op)) =>
            /\ HandedOver(lastOp'.answer) =>
                 /\ lastOp'.outcome = "returned" <=> GapMicros(StoredFor(s)) <= 10000000
                 /\ lastOp'.outcome = "returned" =>
                      sessions'[s].latest_get_message_time = StoredFor(s).sentAt
            /\ <<sessions'[s].latest_get_message_time, sessions'[s].latest_get_message>>
                 # <<sessions[s].latest_get_message_time, sessions[s].latest_get_message>>
                 => /\ HandedOver(lastOp'.answer)
                    /\ GapMicros(StoredFor(s)) <= 10000000]_vars

\* A get has accepted and stored a record sent exactly 10 seconds before the
\* service dated it.
C15_Witness ==
    \E s \in SessionIds :
        /\ lastOp.session = s
        /\ IsGet(lastOp.op)
        /\ lastOp.outcome = "returned"
        /\ GapMicros(StoredFor(s)) = 10000000
        /\ sessions[s].latest_get_message_time = StoredFor(s).sentAt

\* C16: every successful retrieval overwrites latest_get_message_time and
\* latest_get_message, also a get_new_message that returns None because the
\* fetched record's sent time is equal to or earlier than the previous one's.
C16_RecordOverwrittenOnNone ==
    [][\A s \in SessionIds :
          (lastOp'.session = s /\ lastOp'.op = "get_new_message"
             /\ lastOp'.outcome = "returned") =>
            /\ sessions'[s].latest_get_message_time = StoredFor(s).sentAt
            /\ sessions'[s].latest_get_message = Str(StoredFor(s).message.data)
            /\ lastOp'.value = None <=>
                 /\ sessions[s].latest_get_message_time # None
                 /\ Micros(StoredFor(s).sentAt)
                      <= Micros(sessions[s].latest_get_message_time)]_vars

\* get_new_message has returned None and left the session with a record sent
\* earlier than a message it delivered before.
C16_Witness ==
    \E s \in SessionIds :
        /\ lastOp.session = s
        /\ lastOp.op = "get_new_message"
        /\ lastOp.outcome = "returned"
        /\ lastOp.value = None
        /\ succeeded[s].new # None
        /\ Micros(sessions[s].latest_get_message_time) < Micros(succeeded[s].new.time)
        /\ sessions[s].latest_get_message_time = StoredFor(s).sentAt

\* C17: get_latest_message and get_new_message share one record: right after a
\* successful get_latest_message a get_new_message returns None, and a
\* get_latest_message after a get_new_message, however that ended, returns the
\* latest message of the mailbox.
C17_SharedReceivedRecord ==
    [][\A s \in SessionIds :
          /\ (lastOp.session = s /\ lastOp.op = "get_latest_message"
                /\ lastOp.outcome = "returned"
                /\ lastOp'.session = s /\ lastOp'.op = "get_new_message"
                /\ lastOp'.outcome = "returned") => lastOp'.value = None
          /\ (lastOp.session = s /\ lastOp.op = "get_new_message"
                /\ lastOp'.session = s /\ lastOp'.op = "get_latest_message"
                /\ lastOp'.outcome = "returned")
               => lastOp'.value = Str(StoredFor(s).message.data)]_vars

\* One send, one get_latest_message that took its message, and then a
\* get_new_message that has returned None.
C17_Witness ==
    \E s \in SessionIds :
        /\ calls = 3
        /\ lastOp.session = s
        /\ lastOp.op = "get_new_message"
        /\ lastOp.outcome = "returned"
        /\ lastOp.value = None
        /\ lastOp.hadRecord
        /\ succeeded[s].new = None
        /\ sessions[s].latest_get_message # None

\* The mailbox, key and iv of a session.
Identity(self) == <<self.mailbox, self.aes_cbc_key, self.aes_cbc_iv>>

\* C19: send_message, succeeding or failing, never changes
\* latest_get_message_time or latest_get_message; get_latest_message and
\* get_new_message never change latest_send_message_time or
\* latest_send_message; nothing changes mailbox, key or iv after construction.
C19_Frame ==
    [][\A s \in SessionIds :
          Constructed(s) =>
            /\ Identity(sessions'[s]) = Identity(sessions[s])
            /\ lastOp'.op = "send_message" =>
                 /\ sessions'[s].latest_get_message_time
                      = sessions[s].latest_get_message_time
                 /\ sessions'[s].latest_get_message = sessions[s].latest_get_message
            /\ IsGet(lastOp'.op) =>
                 /\ sessions'[s].latest_send_message_time
                      = sessions[s].latest_send_message_time
                 /\ sessions'[s].latest_send_message
                      = sessions[s].latest_send_message]_vars

\* A send_message has succeeded on a session that holds a received record.
C19_Witness ==
    \E s \in SessionIds :
        /\ lastOp.session = s
        /\ lastOp.op = "send_message"
        /\ lastOp.outcome = "returned"
        /\ sessions[s].latest_get_message # None
        /\ sessions[s].latest_get_message_time # sessions[s].latest_send_message_time

\* The first message of the specification of loss, as a get would return it.
LostMessage == Str(<<"h", "i">>)

\* C13: a message that another publish to the mailbox replaced before the
\* session polled is never returned by a later get_latest_message or
\* get_new_message, and no error reports the loss: a get that is handed the
\* record that replaced it ends as it would have without the lost message.
C13_OnlyLatestVisible ==
    \A s \in SessionIds :
        (Constructed(s) /\ calls >= 2) =>
            /\ sessions[s].latest_get_message # LostMessage
            /\ lastOp.value # LostMessage
            /\ (lastOp.session = s /\ IsGet(lastOp.op) /\ HandedOver(lastOp.answer)) =>
                 /\ lastOp.outcome = "returned" <=> GapMicros(StoredFor(s)) <= 10000000
                 /\ lastOp.outcome = "returned" =>
                      sessions[s].latest_get_message = Str(StoredFor(s).message.data)

\* After the first message was replaced unpolled, a get has returned the
\* message that replaced it.
C13_Witness ==
    \E s \in SessionIds :
        /\ calls >= 3
        /\ lastOp.session = s
        /\ IsGet(lastOp.op)
        /\ lastOp.outcome = "returned"
        /\ lastOp.value = Str(<<"y", "o">>)
        /\ sessions[s].latest_send_message = Str(<<"y", "o">>)

\* C18: the sent times of the messages get_new_message returns to a session
\* are strictly increasing, so no message is returned as new twice and none
\* older than one already returned, also when the mailbox's record is replaced
\* by one with an earlier sent time.
C18_NewMessagesStrictlyLater ==
    [][\A s \in SessionIds :
          (lastOp'.session = s /\ lastOp'.op = "get_new_message"
             /\ lastOp'.outcome = "returned" /\ lastOp'.value # None
             /\ succeeded[s].new # None)
            => Micros(succeeded'[s].new.time) > Micros(succeeded[s].new.time)]_vars

\* C12: each call of send_message, get_latest_message or get_new_message makes
\* at most one collaborator call, one publish or one fetch, and never a second
\* attempt: after a collaborator call that failed the call is over, failed.
C12_OneRoundTrip ==
    \A c \in Callers :
        /\ threads[c].trips <= 1
        /\ threads[c].pc \in {"dweet_for", "fetch"} => threads[c].trips = 0
        /\ threads[c].pc \in {"set_send_time", "set_send_message", "return_response",
                             "check_gap", "set_get_time", "set_get_message",
                             "return_message", "read_time", "compare"} =>
             /\ threads[c].trips = 1
             /\ threads[c].outcome = "none"
        /\ (threads[c].pc = "idle" /\ threads[c].op # "none") =>
             /\ threads[c].trips = 1
             /\ threads[c].outcome \in {"returned", "raised"}

\* A get_new_message is over, failed, after the one fetch it made failed.
C12_Witness ==
    \E c \in Callers :
        /\ threads[c].pc = "idle"
        /\ threads[c].op = "get_new_message"
        /\ threads[c].outcome = "raised"
        /\ threads[c].error = "DweessengerError"
        /\ threads[c].trips = 1
        /\ threads[c].read = None

\* Caller c's get_new_message has returned a message.
GotNew(c) ==
    /\ threads[c].pc = "idle"
    /\ threads[c].op = "get_new_message"
    /\ threads[c].outcome = "returned"
    /\ threads[c].value # None

\* C14: a session is not safe for concurrent use: two get_new_message calls
\* on it, nothing published between their fetches, both return a new message
\* only when calls on the session have run concurrently (as when both read the
\* previous time before either stored the record, and both return the one new
\* message); callers whose calls all ran one after the other never do.
C14_BothGetTheNewMessageOnlyConcurrently ==
    \A c \in Callers : \A d \in Callers \ {c} :
        (GotNew(c) /\ GotNew(d) /\ threads[c].fetchedAt = threads[d].fetchedAt) =>
            /\ threads[c].overlapped
            /\ threads[d].overlapped

\* Two concurrent get_new_message calls have both returned the one message of
\* the mailbox, each having read that no record was held.
C14_Witness ==
    \E c \in Callers : \E d \in Callers \ {c} :
        /\ GotNew(c)
        /\ GotNew(d)
        /\ threads[c].fetchedAt = threads[d].fetchedAt
        /\ publishes = 1
        /\ threads[c].value = threads[d].value
        /\ threads[c].last = None
        /\ threads[d].last = None
        /\ threads[c].overlapped
        /\ threads[d].overlapped

====
